---- MODULE Spec2Model ----
(***************************************************************************)
(* Model of the Stock Analysis API (src/Backend/app.py): the four request  *)
(* handlers /stock, /predict, /news and /suggest, the exception handling   *)
(* around each of them, and the application-level exception handlers.      *)
(* One request is followed from its arrival to the response the client     *)
(* receives.  The market-data provider, the forecasting library and the    *)
(* search provider are the environment: each call to them is a step whose  *)
(* outcome is chosen nondeterministically.                                  *)
(***************************************************************************)
EXTENDS Integers, Sequences, FiniteSets, TLC

VARIABLES
    pc,        \* position of the request inside its handler
    endpoint,  \* the route the request came in on
    raw,       \* the query parameter as sent by the client
    ticker,    \* the parameter after the handler normalised it
    keySet,    \* TAVILY_API_KEY differs from the placeholder
    calls,     \* provider calls made so far, in order
    hist,      \* hist_data: rows returned by stock.history
    work,      \* stock_data / predictions built so far
    upstream,  \* response of the search provider (status 0: none yet)
    resp,      \* what the client receives (status 0: nothing yet)
    scen,      \* which quote table the market-data provider serves (/suggest)
    idx,       \* /suggest: index of the next entry of popular_tickers
    gainers,   \* /suggest: the gainers list
    failed,    \* /suggest: symbols whose lookup raised
    divisors   \* /suggest: every divisor used in the change_percent division

vars == <<pc, endpoint, raw, ticker, keySet, calls, hist, work, upstream, resp,
          scen, idx, gainers, failed, divisors>>

suggestVars == <<scen, idx, gainers, failed, divisors>>

----------------------------------------------------------------------------
(* Bounds of the model *)

MaxLen == 2       \* longest query parameter
MaxDay == 4       \* trading days the provider can return rows for
MaxResults == 2   \* most results in one search-provider answer
NScen == 3        \* quote tables the provider can serve

----------------------------------------------------------------------------
(* Strings: sequences of characters *)

Chars == {"a", "A", " "}

Params == UNION {[1..n -> Chars] : n \in 0..MaxLen}

\* str.upper()
Upper(s) == [i \in DOMAIN s |-> IF s[i] = "a" THEN "A" ELSE s[i]]

RECURSIVE LStrip(_)
LStrip(s) == IF s # <<>> /\ Head(s) = " " THEN LStrip(Tail(s)) ELSE s

RECURSIVE RStrip(_)
RStrip(s) ==
    IF s # <<>> /\ s[Len(s)] = " " THEN RStrip(SubSeq(s, 1, Len(s) - 1)) ELSE s

\* str.strip()
Strip(s) == RStrip(LStrip(s))

\* ticker.upper().strip()
NormalizeTicker(t) == Strip(Upper(t))

\* company.strip()
NormalizeCompany(c) == Strip(c)

----------------------------------------------------------------------------
(* Exceptions and the response the client receives *)

\* HTTPException(status_code, detail); http = FALSE for any other exception
HTTPException(code, detail) == [http |-> TRUE, status |-> code, detail |-> detail]

ProviderError == [http |-> FALSE, status |-> 0, detail |-> <<"provider error">>]

NoResp ==
    [status |-> 0, raised |-> 0, detail |-> <<>>, ticker |-> <<>>,
     name |-> <<>>, items |-> <<>>, total |-> 0]

\* The handlers registered with @app.exception_handler(404) and (500) return a
\* dict, which the framework cannot send as a response: sending it raises
\* TypeError, the 500 handler is tried and fails the same way, and the server
\* answers 500 "Internal Server Error".  An HTTPException with any other
\* status is turned into a response with that status and its detail.
ClientStatus(e) == IF e.status = 404 THEN 500 ELSE e.status

ClientDetail(e) == IF e.status = 404 THEN <<"Internal Server Error">> ELSE e.detail

ErrorResp(e) ==
    [NoResp EXCEPT !.status = ClientStatus(e), !.raised = e.status,
                   !.detail = ClientDetail(e)]

\* except Exception as e: raise HTTPException(500, "Error fetching stock data: ...")
StockExcept(e) == HTTPException(500, <<"Error fetching stock data: ">> \o e.detail)

\* except Exception as e: raise HTTPException(500, "Error predicting stock prices: ...")
PredictExcept(e) == HTTPException(500, <<"Error predicting stock prices: ">> \o e.detail)

\* except HTTPException: raise / except Exception as e: raise HTTPException(500, ...)
NewsExcept(e) ==
    IF e.http THEN e ELSE HTTPException(500, <<"Error fetching news: ">> \o e.detail)

----------------------------------------------------------------------------
(* Market-data rows *)

NaN == -1

Volumes == {NaN, 7}

\* the closing price of day d
CloseOn(d) == 10 * d

Rows == {[date |-> d, close |-> CloseOn(d), volume |-> v] : d \in 1..MaxDay, v \in Volumes}

\* stock.history returns rows in chronological order, at most one per day
Histories ==
    {h \in UNION {[1..n -> Rows] : n \in 0..MaxDay} :
        \A i \in 1..(Len(h) - 1) : h[i].date < h[i + 1].date}

----------------------------------------------------------------------------
(* State after construction: the service is up and no request has arrived. *)
(* The search-provider credential is configuration: the placeholder, or a  *)
(* key the operator put in its place.                                       *)

\* one provider call and how it ended: "returned" or "raised"
Call(fn, result) == [fn |-> fn, result |-> result]

NoUpstream == [status |-> 0, text |-> ""]

Init ==
    /\ pc = "idle"
    /\ endpoint = "none"
    /\ raw = <<>>
    /\ ticker = <<>>
    /\ keySet \in BOOLEAN
    /\ calls = <<>>
    /\ hist = <<>>
    /\ work = <<>>
    /\ upstream = NoUpstream
    /\ resp = NoResp
    /\ scen = 0
    /\ idx = 0
    /\ gainers = <<>>
    /\ failed = {}
    /\ divisors = {}

\* the handler raised e: the request ends with the response the client gets
Fail(e) ==
    /\ resp' = ErrorResp(e)
    /\ pc' = "done"

\* info.get('longName', ticker)
LongNames == {<<>>, <<"Long Name">>}

CompanyName(info, t) == IF info = <<>> THEN t ELSE info

----------------------------------------------------------------------------
(* GET /stock: get_stock_data *)

\* date.strftime("%Y-%m-%d")
StrfDate(d) == <<"%Y-%m-%d", d>>

\* one PriceBar from one provider row
BarOf(row) ==
    [date |-> StrfDate(row.date), close |-> row.close, volume |-> row.volume]

\* int(row['Volume']) raises ValueError on NaN
ConversionRaises(h) == \E i \in 1..Len(h) : h[i].volume = NaN

StockDataDropLast(h) == [i \in 1..(Len(h) - 1) |-> BarOf(h[i])]

\* for date, row in hist_data.iterrows(): stock_data.append({...})
StockDataOf(h) == [i \in 1..Len(h) |-> BarOf(h[i])]

\* ticker = ticker.upper().strip(); if not ticker: raise HTTPException(400)
StockReceive(t) ==
    /\ pc = "idle"
    /\ endpoint' = "stock"
    /\ raw' = t
    /\ ticker' = NormalizeTicker(t)
    /\ IF ticker' = <<>>
         THEN Fail(StockExcept(HTTPException(400, <<"Ticker symbol cannot be empty">>)))
         ELSE pc' = "stock_history" /\ UNCHANGED resp
    /\ UNCHANGED <<keySet, calls, hist, work, upstream>>
    /\ UNCHANGED suggestVars

\* hist_data = stock.history(...) raises
StockHistoryRaises ==
    /\ pc = "stock_history"
    /\ calls' = Append(calls, Call("history", "raised"))
    /\ Fail(StockExcept(ProviderError))
    /\ UNCHANGED <<endpoint, raw, ticker, keySet, hist, work, upstream>>
    /\ UNCHANGED suggestVars

\* hist_data = stock.history(...); if hist_data.empty: raise 404; build stock_data
StockHistory(h) ==
    /\ pc = "stock_history"
    /\ calls' = Append(calls, Call("history", "returned"))
    /\ hist' = h
    /\ IF h = <<>>
         THEN /\ Fail(StockExcept(HTTPException(404, <<"No data found for ticker">>)))
              /\ UNCHANGED work
         ELSE IF ConversionRaises(h)
           THEN /\ Fail(StockExcept(ProviderError))
                /\ UNCHANGED work
           ELSE /\ work' = StockDataOf(h)
                /\ pc' = "stock_info"
                /\ UNCHANGED resp
    /\ UNCHANGED <<endpoint, raw, ticker, keySet, upstream>>
    /\ UNCHANGED suggestVars

\* info = stock.info raises
StockInfoRaises ==
    /\ pc = "stock_info"
    /\ calls' = Append(calls, Call("info", "raised"))
    /\ Fail(StockExcept(ProviderError))
    /\ UNCHANGED <<endpoint, raw, ticker, keySet, hist, work, upstream>>
    /\ UNCHANGED suggestVars

\* info = stock.info; return {"ticker": ..., "company_name": ..., "data": ...}
StockInfo(info) ==
    /\ pc = "stock_info"
    /\ calls' = Append(calls, Call("info", "returned"))
    /\ resp' = [NoResp EXCEPT !.status = 200, !.ticker = ticker,
                              !.name = CompanyName(info, ticker),
                              !.items = work, !.total = Len(work)]
    /\ pc' = "done"
    /\ UNCHANGED <<endpoint, raw, ticker, keySet, hist, work, upstream>>
    /\ UNCHANGED suggestVars

StockNext ==
    \/ \E t \in Params : StockReceive(t)
    \/ StockHistoryRaises
    \/ \E h \in Histories : StockHistory(h)
    \/ StockInfoRaises
    \/ \E info \in LongNames : StockInfo(info)

----------------------------------------------------------------------------
(* GET /predict: predict_stock_prices *)

Periods == 5     \* model.make_future_dataframe(periods=5)

TailCount == 5   \* forecast.tail(5)

\* model.make_future_dataframe(periods) followed by model.predict: one row per
\* date of the fitted history, then one row per day after its last date
ForecastOf(h, periods) ==
    [i \in 1..(Len(h) + periods) |->
        IF i <= Len(h)
          THEN [ds |-> h[i].date, yhat |-> h[i].close, future |-> FALSE]
          ELSE [ds |-> h[Len(h)].date + (i - Len(h)), yhat |-> h[Len(h)].close,
                future |-> TRUE]]

\* DataFrame.tail(n)
TailRows(f, n) == SubSeq(f, IF Len(f) > n THEN Len(f) - n + 1 ELSE 1, Len(f))

\* the first n rows
HeadRows(f, n) == SubSeq(f, 1, IF Len(f) > n THEN n ELSE Len(f))

\* one ForecastPoint from one forecast row
PredictionOf(row) ==
    [ds |-> StrfDate(row.ds), yhat |-> row.yhat,
     yhat_lower |-> row.yhat - 1, yhat_upper |-> row.yhat + 1]

PredictionsHead(h) ==
    LET future_predictions == HeadRows(ForecastOf(h, Periods), TailCount)
    IN  [i \in 1..Len(future_predictions) |-> PredictionOf(future_predictions[i])]

\* future_dates = make_future_dataframe(periods=5); forecast = predict(future_dates)
\* future_predictions = forecast.tail(5); predictions.append({...}) for each row
PredictionsOf(h) ==
    LET future_predictions == TailRows(ForecastOf(h, Periods), TailCount)
    IN  [i \in 1..Len(future_predictions) |-> PredictionOf(future_predictions[i])]

\* ticker = ticker.upper().strip(); if not ticker: raise HTTPException(400)
PredictReceive(t) ==
    /\ pc = "idle"
    /\ endpoint' = "predict"
    /\ raw' = t
    /\ ticker' = NormalizeTicker(t)
    /\ IF ticker' = <<>>
         THEN Fail(PredictExcept(HTTPException(400, <<"Ticker symbol cannot be empty">>)))
         ELSE pc' = "predict_history" /\ UNCHANGED resp
    /\ UNCHANGED <<keySet, calls, hist, work, upstream>>
    /\ UNCHANGED suggestVars

\* hist_data = stock.history(...) raises
PredictHistoryRaises ==
    /\ pc = "predict_history"
    /\ calls' = Append(calls, Call("history", "raised"))
    /\ Fail(PredictExcept(ProviderError))
    /\ UNCHANGED <<endpoint, raw, ticker, keySet, hist, work, upstream>>
    /\ UNCHANGED suggestVars

\* hist_data = stock.history(...); if hist_data.empty: raise HTTPException(404)
PredictHistory(h) ==
    /\ pc = "predict_history"
    /\ calls' = Append(calls, Call("history", "returned"))
    /\ hist' = h
    /\ IF h = <<>>
         THEN Fail(PredictExcept(HTTPException(404, <<"No data found for ticker">>)))
         ELSE pc' = "predict_fit" /\ UNCHANGED resp
    /\ UNCHANGED <<endpoint, raw, ticker, keySet, work, upstream>>
    /\ UNCHANGED suggestVars

\* model.fit(df) or model.predict(future_dates) raises
PredictFitRaises ==
    /\ pc = "predict_fit"
    /\ calls' = Append(calls, Call("fit", "raised"))
    /\ Fail(PredictExcept(ProviderError))
    /\ UNCHANGED <<endpoint, raw, ticker, keySet, hist, work, upstream>>
    /\ UNCHANGED suggestVars

\* model.fit(df); forecast; predictions
PredictFit ==
    /\ pc = "predict_fit"
    /\ calls' = Append(calls, Call("fit", "returned"))
    /\ work' = PredictionsOf(hist)
    /\ pc' = "predict_info"
    /\ UNCHANGED <<endpoint, raw, ticker, keySet, hist, upstream, resp>>
    /\ UNCHANGED suggestVars

\* info = stock.info raises
PredictInfoRaises ==
    /\ pc = "predict_info"
    /\ calls' = Append(calls, Call("info", "raised"))
    /\ Fail(PredictExcept(ProviderError))
    /\ UNCHANGED <<endpoint, raw, ticker, keySet, hist, work, upstream>>
    /\ UNCHANGED suggestVars

\* info = stock.info; return {"ticker": ..., "predictions": ...}
PredictInfo(info) ==
    /\ pc = "predict_info"
    /\ calls' = Append(calls, Call("info", "returned"))
    /\ resp' = [NoResp EXCEPT !.status = 200, !.ticker = ticker,
                              !.name = CompanyName(info, ticker),
                              !.items = work, !.total = Len(work)]
    /\ pc' = "done"
    /\ UNCHANGED <<endpoint, raw, ticker, keySet, hist, work, upstream>>
    /\ UNCHANGED suggestVars

PredictNext ==
    \/ \E t \in Params : PredictReceive(t)
    \/ PredictHistoryRaises
    \/ \E h \in Histories : PredictHistory(h)
    \/ PredictFitRaises
    \/ PredictFit
    \/ PredictInfoRaises
    \/ \E info \in LongNames : PredictInfo(info)

----------------------------------------------------------------------------
(* GET /news: get_company_news *)

NotConfigured == <<"Tavily API key not configured. Please set TAVILY_API_KEY in the code.">>

\* the status codes the search provider answers with
ProviderStatuses == {200, 401, 404, 429, 500}

ProviderTexts == {"", "invalid api key"}

Opt == {<<>>, <<"x">>}

\* one entry of data['results']; <<>> is a key the provider left out
ResultDicts == [title : Opt, url : Opt]

\* response.json(): <<>> when there is no 'results' key, else <<results>>
JsonBodies ==
    {<<>>} \cup {<<r>> : r \in UNION {[1..n -> ResultDicts] : n \in 0..MaxResults}}

\* result.get(key, '')
GetOr(o, default) == IF o = <<>> THEN default ELSE o[1]

ArticleOf(r) == [title |-> GetOr(r.title, ""), url |-> GetOr(r.url, "")]

\* articles = []; if 'results' in data: for result in data['results']: append
ArticlesOf(data) ==
    IF data = <<>> THEN <<>> ELSE [i \in 1..Len(data[1]) |-> ArticleOf(data[1][i])]

NewsCheckKeyFirst(company, configured) ==
    IF ~configured THEN HTTPException(500, NotConfigured)
    ELSE IF company = <<>> THEN HTTPException(400, <<"Company name cannot be empty">>)
    ELSE HTTPException(0, <<>>)

\* if not company: raise 400; if TAVILY_API_KEY == placeholder: raise 500
\* (status 0: neither check raised)
NewsCheck(company, configured) ==
    IF company = <<>> THEN HTTPException(400, <<"Company name cannot be empty">>)
    ELSE IF ~configured THEN HTTPException(500, NotConfigured)
    ELSE HTTPException(0, <<>>)

\* raise HTTPException(status_code=response.status_code,
\*                     detail=f"Tavily API error: {response.text}")
UpstreamError(r) == HTTPException(r.status, <<"Tavily API error: ", r.text>>)

\* company = company.strip() and the two checks before the provider is called
NewsReceive(c) ==
    /\ pc = "idle"
    /\ endpoint' = "news"
    /\ raw' = c
    /\ ticker' = NormalizeCompany(c)
    /\ LET e == NewsCheck(ticker', keySet)
       IN  IF e.status # 0
             THEN Fail(NewsExcept(e))
             ELSE pc' = "news_post" /\ UNCHANGED resp
    /\ UNCHANGED <<keySet, calls, hist, work, upstream>>
    /\ UNCHANGED suggestVars

\* requests.post(...) raises
NewsPostRaises ==
    /\ pc = "news_post"
    /\ calls' = Append(calls, Call("post", "raised"))
    /\ Fail(NewsExcept(ProviderError))
    /\ UNCHANGED <<endpoint, raw, ticker, keySet, hist, work, upstream>>
    /\ UNCHANGED suggestVars

\* response = requests.post(...); if response.status_code != 200: raise
NewsPostError(r) ==
    /\ pc = "news_post"
    /\ r.status # 200
    /\ calls' = Append(calls, Call("post", "returned"))
    /\ upstream' = r
    /\ Fail(NewsExcept(UpstreamError(r)))
    /\ UNCHANGED <<endpoint, raw, ticker, keySet, hist, work>>
    /\ UNCHANGED suggestVars

\* status 200 but response.json() raises
NewsPostBadJson(r) ==
    /\ pc = "news_post"
    /\ r.status = 200
    /\ calls' = Append(calls, Call("post", "returned"))
    /\ upstream' = r
    /\ Fail(NewsExcept(ProviderError))
    /\ UNCHANGED <<endpoint, raw, ticker, keySet, hist, work>>
    /\ UNCHANGED suggestVars

\* status 200: data = response.json(); articles; return {...}
NewsPostOk(r, data) ==
    /\ pc = "news_post"
    /\ r.status = 200
    /\ calls' = Append(calls, Call("post", "returned"))
    /\ upstream' = r
    /\ work' = ArticlesOf(data)
    /\ resp' = [NoResp EXCEPT !.status = 200, !.ticker = ticker,
                              !.items = work', !.total = Len(work')]
    /\ pc' = "done"
    /\ UNCHANGED <<endpoint, raw, ticker, keySet, hist>>
    /\ UNCHANGED suggestVars

UpstreamResponses == [status : ProviderStatuses, text : ProviderTexts]

NewsNext ==
    \/ \E c \in Params : NewsReceive(c)
    \/ NewsPostRaises
    \/ \E r \in UpstreamResponses : NewsPostError(r)
    \/ \E r \in UpstreamResponses : NewsPostBadJson(r)
    \/ \E r \in UpstreamResponses, data \in JsonBodies : NewsPostOk(r, data)

----------------------------------------------------------------------------
(* GET /suggest: get_top_gainers *)

popular_tickers ==
    <<"AAPL", "GOOGL", "MSFT", "AMZN", "TSLA", "META", "NVDA", "NFLX",
      "AMD", "INTC", "CRM", "ORCL", "ADBE", "PYPL", "UBER", "LYFT">>

TopN == 10   \* gainers[:10]

\* stock.info.get('currentPrice') and stock.info.get('previousClose') of the
\* i-th symbol in quote table s: <<>> is None, <<v>> a value (prices in whole
\* units; every table has missing and zero values and more than TopN symbols
\* with both prices)
Quote(s, i) ==
    LET k == (i + s) % 16
    IN  [cur  |-> IF k = 9 THEN <<>> ELSE IF k = 13 THEN <<0>>
                  ELSE <<1 + ((i * (s + 1) + (i \div 4)) % 4)>>,
         prev |-> IF k = 5 THEN <<>> ELSE IF k = 0 THEN <<0>>
                  ELSE <<1 + ((i * s) % 3)>>]

\* truth value of an optional number: None and 0 are false
Truthy(o) == o # <<>> /\ o[1] # 0

HasBothNoZeroCheck(q) == Truthy(q.cur) /\ q.prev # <<>>

\* if current_price and previous_close:
HasBoth(q) == Truthy(q.cur) /\ Truthy(q.prev)

\* n / d rounded to the nearest integer (d > 0)
RoundDiv(n, d) == (2 * n + d) \div (2 * d)

\* round(((current_price - previous_close) / previous_close) * 100, 2),
\* in hundredths of a percent
ChangePercent(c, p) == RoundDiv((c - p) * 10000, p)

\* the dict appended to gainers; change_amount in hundredths
GainerEntry(t, c, p) ==
    [ticker |-> t, current_price |-> c, previous_close |-> p,
     change_percent |-> ChangePercent(c, p), change_amount |-> (c - p) * 100]

\* x put behind the entries of the descending list g that are not smaller
InsertDesc(g, x) ==
    LET k == Cardinality({j \in 1..Len(g) : g[j].change_percent >= x.change_percent})
    IN  SubSeq(g, 1, k) \o <<x>> \o SubSeq(g, k + 1, Len(g))

\* a stable sort, descending by change_percent
RECURSIVE StableSortDesc(_)
StableSortDesc(g) ==
    IF g = <<>> THEN <<>>
    ELSE InsertDesc(StableSortDesc(SubSeq(g, 1, Len(g) - 1)), g[Len(g)])

SortUnsorted(g) == g

\* gainers.sort(key=lambda x: x['change_percent'], reverse=True)
SortDesc(g) == StableSortDesc(g)

\* gainers[:10]
TopGainers(g) == SubSeq(g, 1, IF Len(g) > TopN THEN TopN ELSE Len(g))

TotalReturned(g) == Len(g)

\* "total_analyzed": len(popular_tickers)
TotalAnalyzed(g) == Len(popular_tickers)

OnLookupErrorAbort == "abort"

\* except Exception as e: logger.warning(...); continue
OnLookupError == "continue"

\* except Exception as e: raise HTTPException(500, "Error fetching top gainers: ...")
SuggestExcept(e) == HTTPException(500, <<"Error fetching top gainers: ">> \o e.detail)

\* an exception inside the loop body for the symbol at idx
LookupError ==
    IF OnLookupError = "continue"
      THEN /\ failed' = failed \cup {popular_tickers[idx]}
           /\ idx' = idx + 1
           /\ UNCHANGED <<pc, resp>>
      ELSE /\ Fail(SuggestExcept(ProviderError))
           /\ UNCHANGED <<failed, idx>>

\* the request arrives; the provider serves quote table s while it runs
SuggestReceive(s) ==
    /\ pc = "idle"
    /\ endpoint' = "suggest"
    /\ scen' = s
    /\ idx' = 1
    /\ gainers' = <<>>
    /\ pc' = "suggest_loop"
    /\ UNCHANGED <<raw, ticker, keySet, calls, hist, work, upstream, resp,
                   failed, divisors>>

\* stock.info raises for the symbol at idx
SuggestLookupRaises ==
    /\ pc = "suggest_loop"
    /\ idx <= Len(popular_tickers)
    /\ calls' = Append(calls, Call(popular_tickers[idx], "raised"))
    /\ LookupError
    /\ UNCHANGED <<endpoint, raw, ticker, keySet, hist, work, upstream,
                   scen, gainers, divisors>>

\* one pass of the loop body for the symbol at idx
SuggestLookup ==
    /\ pc = "suggest_loop"
    /\ idx <= Len(popular_tickers)
    /\ calls' = Append(calls, Call(popular_tickers[idx], "returned"))
    /\ LET q == Quote(scen, idx)
       IN  IF HasBoth(q)
             THEN /\ divisors' = divisors \cup {q.prev[1]}
                  /\ IF q.prev[1] = 0
                       THEN \* ZeroDivisionError
                            LookupError /\ UNCHANGED gainers
                       ELSE /\ gainers' = Append(gainers,
                                   GainerEntry(popular_tickers[idx], q.cur[1], q.prev[1]))
                            /\ idx' = idx + 1
                            /\ UNCHANGED <<pc, resp, failed>>
             ELSE /\ idx' = idx + 1
                  /\ UNCHANGED <<pc, resp, failed, gainers, divisors>>
    /\ UNCHANGED <<endpoint, raw, ticker, keySet, hist, work, upstream, scen>>

\* after the loop: sort, take the top 10, return
SuggestFinish ==
    /\ pc = "suggest_loop"
    /\ idx = Len(popular_tickers) + 1
    /\ gainers' = SortDesc(gainers)
    /\ resp' = [NoResp EXCEPT !.status = 200, !.items = TopGainers(gainers'),
                              !.total = TotalAnalyzed(gainers')]
    /\ pc' = "done"
    /\ UNCHANGED <<endpoint, raw, ticker, keySet, calls, hist, work, upstream,
                   scen, idx, failed, divisors>>

SuggestNext ==
    \/ \E s \in 1..NScen : SuggestReceive(s)
    \/ SuggestLookupRaises
    \/ SuggestLookup
    \/ SuggestFinish

\* /suggest never reads the credential: the placeholder of the source is kept
InitSuggest == Init /\ ~keySet

SpecSuggest == InitSuggest /\ [][SuggestNext]_vars

----------------------------------------------------------------------------
Next == StockNext \/ PredictNext \/ NewsNext

Spec == Init /\ [][Next]_vars

----------------------------------------------------------------------------
(* Helpers of the properties *)

Done == pc = "done"

\* the parameter is empty or whitespace only
Blank(s) == \A i \in 1..Len(s) : s[i] = " "

\* the provider call fn was made and returned
Returned(fn) == \E i \in 1..Len(calls) : calls[i] = Call(fn, "returned")

\* t is r without its leading and trailing spaces and in upper case
IsTrimmedUpper(t, r) ==
    \E i, j \in 0..Len(r) :
        /\ i + j < Len(r)
        /\ \A k \in 1..i : r[k] = " "
        /\ \A k \in (Len(r) - j + 1)..Len(r) : r[k] = " "
        /\ r[i + 1] # " "
        /\ r[Len(r) - j] # " "
        /\ Len(t) = Len(r) - i - j
        /\ \A k \in 1..Len(t) :
              /\ t[k] \in {"A", " "}
              /\ (t[k] = " ") <=> (r[i + k] = " ")

\* the index of ticker t in popular_tickers
IndexOf(t) == CHOOSE i \in 1..Len(popular_tickers) : popular_tickers[i] = t

\* the provider serves both prices of the i-th symbol, and neither is 0
BothPrices(i) ==
    LET q == Quote(scen, i)
    IN  q.cur \notin {<<>>, <<0>>} /\ q.prev \notin {<<>>, <<0>>}

Tickers(g) == {g[i].ticker : i \in 1..Len(g)}

----------------------------------------------------------------------------
(* Properties *)

\* C1: a /stock or /predict request for a non-empty ticker for which the
\* provider returns no rows ends with status 404 at the client.
C1_NoDataIs404 ==
    (Done /\ endpoint \in {"stock", "predict"} /\ ~Blank(raw)
          /\ Returned("history") /\ hist = <<>>)
        => resp.status = 404

\* C2: a /stock, /predict or /news request whose parameter is empty or
\* whitespace only ends with status 400, and no provider call was made.
C2_BlankIs400 ==
    (Done /\ endpoint \in {"stock", "predict", "news"} /\ Blank(raw))
        => (resp.status = 400 /\ calls = <<>>)

\* C3: a successful /suggest response has at most 10 entries, each entry's
\* change_percent is at least the next entry's, the entries are candidates
\* (symbols whose lookup did not raise and that have both prices), and no
\* candidate left out has a change_percent above that of a returned entry.
C3_TopGainersSorted ==
    (endpoint = "suggest" /\ resp.status = 200) =>
        LET top == resp.items
            cand == {i \in 1..Len(popular_tickers) :
                        popular_tickers[i] \notin failed /\ BothPrices(i)}
            pct(i) == ChangePercent(Quote(scen, i).cur[1], Quote(scen, i).prev[1])
        IN  /\ Len(top) <= 10
            /\ Len(top) = IF Cardinality(cand) > 10 THEN 10 ELSE Cardinality(cand)
            /\ \A k \in 1..(Len(top) - 1) :
                  top[k].change_percent >= top[k + 1].change_percent
            /\ \A k \in 1..Len(top) :
                  /\ IndexOf(top[k].ticker) \in cand
                  /\ top[k].change_percent = pct(IndexOf(top[k].ticker))
            /\ \A i \in cand :
                  popular_tickers[i] \notin Tickers(top)
                      => \A k \in 1..Len(top) : pct(i) <= top[k].change_percent

C3_Witness ==
    /\ endpoint = "suggest"
    /\ resp.status = 200
    /\ Len(gainers) > 10
    /\ failed # {}
    /\ resp.items[1].change_percent > resp.items[10].change_percent

\* C4: in /suggest a lookup that raises never aborts the request: the symbols
\* are looked up one after the other in list order whatever lookups raised,
\* and the request ends with status 200 after all 16 were looked up.
C4_LookupErrorsSkipped ==
    endpoint = "suggest" =>
        /\ Len(calls) <= Len(popular_tickers)
        /\ \A i \in 1..Len(calls) : calls[i].fn = popular_tickers[i]
        /\ failed \subseteq {calls[i].fn : i \in 1..Len(calls)}
        /\ Done => (resp.status = 200 /\ Len(calls) = 16)

C4_Witness ==
    /\ endpoint = "suggest"
    /\ Done
    /\ resp.status = 200
    /\ calls[1].result = "raised"
    /\ calls[16].result = "returned"
    /\ resp.items # <<>>

\* C5: every successful /suggest response has total_analyzed = 16, whatever
\* lookups failed and however long top_gainers is.
C5_TotalAnalyzed ==
    (endpoint = "suggest" /\ resp.status = 200) => resp.total = 16

C5_Witness ==
    /\ endpoint = "suggest"
    /\ resp.status = 200
    /\ Cardinality(failed) = 3
    /\ Len(resp.items) = 9

\* C6: a /news request with an unset credential never reaches the search
\* provider; it ends with status 500 and the "not configured" message when the
\* company is non-empty after trimming, and with status 400 when it is empty.
C6_Unconfigured ==
    (endpoint = "news" /\ ~keySet) =>
        /\ calls = <<>>
        /\ Done
        /\ IF Blank(raw)
             THEN resp.status = 400
             ELSE resp.status = 500 /\ resp.detail = NotConfigured

C6_Witness ==
    /\ endpoint = "news"
    /\ ~keySet
    /\ ~Blank(raw)
    /\ resp.status = 500

\* C7: when the search provider answers /news with a status other than 200,
\* the request ends with the provider's status and a detail that contains the
\* provider's body text.
C7_StatusForwarded ==
    (endpoint = "news" /\ Done /\ upstream.status \notin {0, 200}) =>
        /\ resp.status = upstream.status
        /\ \E i \in 1..Len(resp.detail) : resp.detail[i] = upstream.text

\* C8: a successful /predict response has exactly 5 predictions: the rows for
\* the 5 days after the last day of the fitted history, in order, and no row
\* of the fitted history.
C8_FivePredictions ==
    (endpoint = "predict" /\ resp.status = 200) =>
        /\ Len(resp.items) = 5
        /\ \A k \in 1..Len(resp.items) :
              /\ resp.items[k].ds = StrfDate(hist[Len(hist)].date + k)
              /\ \A i \in 1..Len(hist) : resp.items[k].ds # StrfDate(hist[i].date)

C8_Witness ==
    /\ endpoint = "predict"
    /\ resp.status = 200
    /\ Len(hist) >= 2

\* C9: a successful /stock response has one PriceBar per provider row, in the
\* order of the rows, and its ticker is the input trimmed and in upper case.
C9_BarsInOrder ==
    (endpoint = "stock" /\ resp.status = 200) =>
        /\ Len(resp.items) = Len(hist)
        /\ \A i \in 1..Len(hist) :
              /\ resp.items[i].date = StrfDate(hist[i].date)
              /\ resp.items[i].close = hist[i].close
              /\ resp.items[i].volume = hist[i].volume
        /\ IsTrimmedUpper(resp.ticker, raw)

C9_Witness ==
    /\ endpoint = "stock"
    /\ resp.status = 200
    /\ Len(hist) >= 2
    /\ resp.ticker # raw

\* C10: in /suggest a symbol gets an entry only if both prices are present
\* and non-zero; a symbol without them is skipped without an error, no division
\* has a zero divisor, and the returned tickers are distinct members of the
\* symbol list.
C10_BothPricesNeeded ==
    endpoint = "suggest" =>
        /\ 0 \notin divisors
        /\ \A k \in 1..Len(gainers) : BothPrices(IndexOf(gainers[k].ticker))
        /\ \A i \in 1..Len(calls) :
              (calls[i].result = "returned" /\ ~BothPrices(i))
                  => /\ calls[i].fn \notin failed
                     /\ calls[i].fn \notin Tickers(gainers)
        /\ \A k \in 1..Len(resp.items) :
              /\ \E i \in 1..Len(popular_tickers) : resp.items[k].ticker = popular_tickers[i]
              /\ \A m \in 1..Len(resp.items) :
                    resp.items[m].ticker = resp.items[k].ticker => m = k

C10_Witness ==
    /\ endpoint = "suggest"
    /\ resp.status = 200
    /\ resp.items # <<>>
    /\ \E i \in 1..Len(calls) :
          calls[i].result = "returned" /\ Quote(scen, i).prev = <<0>>
    /\ \E i \in 1..Len(calls) :
          calls[i].result = "returned" /\ Quote(scen, i).cur = <<>>

====
